---- MODULE Spec2Model ----
(***************************************************************************)
(* Model of the webhook pipeline of main.py: POST /callback                *)
(* (webhook_callback), the background coroutines it creates                *)
(* (download_video, process_audio) and the blocking helper download_file,  *)
(* all running on one asyncio event loop.                                  *)
(*                                                                         *)
(* JSON values are abstracted: an absent key and the value null are both   *)
(* None; every other value is a non-empty string.  A callback payload is a *)
(* record of the fields the handler reads.                                 *)
(***************************************************************************)
EXTENDS Integers, Sequences, FiniteSets, TLC

\* ---------------------------------------------------------------- bounds
NumDeliveries == 2      \* callbacks delivered to POST /callback in one run
MaxChunks == 2          \* chunks of a complete remote file (iter_content)
NumRequests == 2        \* requests to the client-facing endpoints in one run

D == 1..NumDeliveries
R == 1..NumRequests

None == "None"

\* ------------------------------------------------------------- constants
CALLBACK_URL == "BASE_URL/callback"
BASE_URL == "BASE_URL"
VIDEO_URL == "SUNO_BASE/mp4/generate"
GENERATE_URL == "SUNO_BASE/generate"
STATUS_URL == "SUNO_BASE/generate/record-info"
LYRICS_URL == "SUNO_BASE/generate/get-timestamped-lyrics"

\* ------------------------------------------------------------- payloads
NoItem ==
    [state |-> None, status |-> None, audioUrl |-> None,
     streamAudioUrl |-> None, audioId |-> None,
     video_url |-> None, task_id |-> None]

\* a JSON object body; shape is the type of its "data" member:
\*   "absent" | "null" | "dict" | "list" | "emptylist" | "string" | "scalarlist"
\* item is the dict itself (shape "dict") or the first element (shape "list");
\* an item equal to NoItem is the empty dict {}.
Obj(code, taskId, task_id, shape, item) ==
    [body |-> "dict", code |-> code, taskId |-> taskId, task_id |-> task_id,
     shape |-> shape, item |-> item]

\* a JSON body that is not an object (a list, a string, a number)
NonObject == [body |-> "other", code |-> None, taskId |-> None,
              task_id |-> None, shape |-> "absent", item |-> NoItem]

NoPayload == [body |-> "none", code |-> None, taskId |-> None,
              task_id |-> None, shape |-> "absent", item |-> NoItem]

AudioItem(state, audioUrl, audioId) ==
    [NoItem EXCEPT !.state = state, !.audioUrl = audioUrl, !.audioId = audioId]

VideoItem(task_id, video_url) ==
    [NoItem EXCEPT !.task_id = task_id, !.video_url = video_url]

Payloads ==
    { Obj(None, "t1", None, "list", AudioItem("succeeded", "u1", "a1")),
      Obj(None, "t1", None, "dict", AudioItem("succeeded", "u1", "a1")),
      Obj("0",  "t1", None, "dict", AudioItem("succeeded", "u1", "a1")),
      Obj("0",  "t1", None, "list", AudioItem("succeeded", "u1", "a1")),
      Obj(None, "t2", None, "list", AudioItem("succeeded", "u2", "a2")),
      Obj(None, "t1", None, "list", AudioItem("succeeded", "u1", None)),
      Obj(None, "t1", None, "list", AudioItem("processing", None, None)),
      Obj("0",  "t1", None, "list", AudioItem("processing", None, None)),
      Obj(None, "t1", None, "list", AudioItem("succeeded", None, "a1")),
      Obj(None, "t1", None, "absent", NoItem),
      Obj(None, "t1", None, "string", NoItem),
      Obj("0",  None, None, "dict", VideoItem("t1", "v1")),
      Obj("0",  None, None, "dict", VideoItem(None, "v1")),
      Obj("200", "t1", None, "dict", VideoItem("t1", "v1")),
      Obj("0",  "t1", None, "dict",
          [AudioItem("succeeded", "u1", "a1") EXCEPT
              !.task_id = "t2", !.video_url = "v1"]),
      Obj(None, None, "t1", "dict",
          [NoItem EXCEPT !.status = "succeeded", !.streamAudioUrl = "u1",
                         !.audioId = "a1"]),
      Obj(None, None, None, "list", AudioItem("succeeded", "u1", "a1")),
      Obj(None, "t1", None, "emptylist", NoItem),
      Obj(None, "t1", None, "scalarlist", NoItem),
      NonObject }

\* the payloads of the runs with concurrent deliveries: an audio completion
\* for each of two tasks, a video completion, a progress notification
CorePayloads ==
    { Obj(None, "t1", None, "list", AudioItem("succeeded", "u1", "a1")),
      Obj(None, "t2", None, "list", AudioItem("succeeded", "u2", "a2")),
      Obj("0",  None, None, "dict", VideoItem("t1", "v1")),
      Obj(None, "t1", None, "list", AudioItem("processing", None, None)) }

\* ------------------------------------------------------------ Python `or`
Or(a, b) == IF a # None THEN a ELSE b

\* ---------------------------------------------------------- webhook_callback
NoCoroutine ==
    [kind |-> "none", url |-> None, path |-> <<None, "none">>,
     task_id |-> None, audio_id |-> None]

Ack(status, detail, task_id, audio_id, path, co) ==
    [status |-> status, detail |-> detail, task_id |-> task_id,
     audio_id |-> audio_id, path |-> path, co |-> co]

\* the except clause of line 373
Caught == Ack("error", "exception", None, None, <<None, "none">>, NoCoroutine)

AudioBranch(p) ==
    LET task_id == Or(p.taskId, p.task_id)
        item == p.item
        state == Or(item.state, item.status)
        audio_url == Or(item.audioUrl, item.streamAudioUrl)
        audio_id == item.audioId
        mp3_path == <<task_id, "mp3">>
    IN  IF p.shape \in {"absent", "null", "emptylist"}
           \/ (p.shape = "dict" /\ item = NoItem)
        THEN Ack("ignored", "no_data", None, None, <<None, "none">>, NoCoroutine)
        ELSE IF p.shape = "string"
        THEN Ack("ignored", "invalid_data_format", None, None, <<None, "none">>, NoCoroutine)
        ELSE IF p.shape = "scalarlist"
        THEN Caught
        ELSE IF item = NoItem
        THEN Ack("ignored", "empty_item", None, None, <<None, "none">>, NoCoroutine)
        ELSE IF state # "succeeded"
        THEN Ack("processing", state, None, None, <<None, "none">>, NoCoroutine)
        ELSE IF audio_url = None
        THEN Ack("no_audio_url", None, None, None, <<None, "none">>, NoCoroutine)
        ELSE Ack("audio_processed", None, task_id, audio_id, mp3_path,
                 [kind |-> "process_audio", url |-> audio_url, path |-> mp3_path,
                  task_id |-> task_id, audio_id |-> audio_id])

\* mutant: the audio test is made before the video test
webhook_callback_audio_first(p) ==
    IF p.body # "dict"
    THEN Caught
    ELSE IF p.shape \in {"dict", "list"}
            /\ AudioBranch(p).status = "audio_processed"
    THEN AudioBranch(p)
    ELSE IF p.code = "0" /\ p.shape \notin {"absent", "dict"}
    THEN Caught
    ELSE IF p.code = "0" /\ p.shape = "dict" /\ p.item.video_url # None
    THEN IF p.item.task_id = None
         THEN Caught
         ELSE Ack("video_processing", "Video download started",
                  p.item.task_id, None, <<None, "none">>,
                  [kind |-> "download_video", url |-> p.item.video_url,
                   path |-> <<p.item.task_id, "mp4">>,
                   task_id |-> p.item.task_id, audio_id |-> None])
    ELSE AudioBranch(p)

webhook_callback(p) ==
    IF p.body # "dict"
    THEN Caught
    ELSE IF p.code = "0" /\ p.shape \notin {"absent", "dict"}
    THEN Caught
    ELSE IF p.code = "0" /\ p.shape = "dict" /\ p.item.video_url # None
    THEN IF p.item.task_id = None
         THEN Caught
         ELSE LET video_task_id == p.item.task_id
                  video_url == p.item.video_url
                  mp4_path == <<video_task_id, "mp4">>
              IN  Ack("video_processing", "Video download started",
                      video_task_id, None, <<None, "none">>,
                      [kind |-> "download_video", url |-> video_url,
                       path |-> mp4_path, task_id |-> video_task_id,
                       audio_id |-> None])
    ELSE AudioBranch(p)

\* ------------------------------------------------------------------ state
VARIABLES
    apiKey,     \* SUNO_API_KEY is configured (read once at import)
    payload,    \* payload[d]: JSON body of delivery d
    hpc,        \* hpc[d]: "idle" | "arrived" | "returned" (handler position)
    resp,       \* resp[d]: body returned by webhook_callback
    bg,         \* bg[d]: the background task created for delivery d
    post,       \* post[d]: the video-trigger request sent for delivery d
    log,        \* log[d]: lines printed by the background task
    file,       \* file[path]: content of the file under media/
    running,    \* the coroutine holding the event loop ({} when idle)
    prior,      \* prior[d]: deliveries fully processed when d arrived
    direct      \* direct[r]: request r to a client-facing endpoint

vars == <<apiKey, payload, hpc, resp, bg, post, log, file, running, prior,
          direct>>

TaskIds == {None, "t1", "t2"}
Paths == (TaskIds \X {"mp3", "mp4"}) \cup {<<None, "none">>}

Absent == [src |-> None, len |-> 0, exists |-> FALSE]
Complete(f) == f.exists /\ f.len = MaxChunks

NoResp == Ack("none", None, None, None, <<None, "none">>, NoCoroutine)
NoTask == [pc |-> "none", ret |-> "none", co |-> NoCoroutine]
NoPost == [url |-> None, taskId |-> None, audioId |-> None,
           callBackUrl |-> None, author |-> None, domainName |-> None,
           result |-> "none"]

\* mutant: the coroutine is run to its end before the handler returns
create_task_eager(co) == [pc |-> "done", ret |-> "True", co |-> co]

\* asyncio.create_task: the coroutine is scheduled, it has not run yet
create_task(co) == [pc |-> "scheduled", ret |-> "none", co |-> co]

\* mutant: download_file without its try/except
download_file_uncaught(outcome) ==
    IF outcome = "complete" THEN "True" ELSE "raise"

\* download_file: what the caller gets for each outcome of the transfer
download_file(outcome) ==
    IF outcome = "complete" THEN "True" ELSE "False"

\* ------------------------------------------- the client-facing endpoints
\* what the provider does with a request: an HTTP response (status, body,
\* whether the body parses as JSON) or a transport fault
Answer(kind, status, body, json) ==
    [kind |-> kind, status |-> status, body |-> body, json |-> json]
NoAnswer == Answer("none", 0, None, FALSE)
ProviderAnswers ==
    { Answer("response", 200, "b0", TRUE),
      Answer("response", 200, "b0", FALSE),
      Answer("response", 404, "b1", TRUE),
      Answer("response", 500, "b2", FALSE),
      Answer("fault", 0, None, FALSE) }

\* httpx.Response.is_success, the test of raise_for_status
is_success(status) == 200 <= status /\ status <= 299

\* return result
Result(body) == [kind |-> "ok", status_code |-> 200, prefix |-> None, text |-> body]
\* raise HTTPException(status_code=..., detail=prefix + text)
HTTPException(status_code, prefix, text) ==
    [kind |-> "http_error", status_code |-> status_code, prefix |-> prefix,
     text |-> text]
NoResult == [kind |-> "none", status_code |-> 0, prefix |-> None, text |-> None]

\* the try/except shared by the four endpoints (lines 141-161, 172-192,
\* 209-229, 249-269): get_headers() raises inside the try when the key is
\* missing; raise_for_status raises HTTPStatusError on a non-success status;
\* every other exception becomes a 500
Proxy(prefix, key, answer) ==
    IF ~key
    THEN HTTPException(500, None, "SUNO_API_KEY not configured")
    ELSE IF answer.kind = "fault"
    THEN HTTPException(500, None, "transport fault")
    ELSE IF ~is_success(answer.status)
    THEN HTTPException(answer.status, prefix, answer.body)
    ELSE IF ~answer.json
    THEN HTTPException(500, None, "invalid JSON")
    ELSE Result(answer.body)

\* mutant: the status of the provider's response is not checked
generate_music_unchecked(key, answer) ==
    IF ~key
    THEN HTTPException(500, None, "SUNO_API_KEY not configured")
    ELSE IF answer.kind = "fault"
    THEN HTTPException(500, None, "transport fault")
    ELSE IF ~answer.json
    THEN HTTPException(500, None, "invalid JSON")
    ELSE Result(answer.body)

generate_music(key, answer) == Proxy("Kie.ai API error: ", key, answer)
check_status(key, answer) == Proxy("Status check failed: ", key, answer)
get_lyrics(key, answer) == Proxy("Lyrics fetch failed: ", key, answer)
generate_video(key, answer) == Proxy("Video generation failed: ", key, answer)

Endpoints == {"generate", "check", "lyrics", "video"}

Endpoint(name, key, answer) ==
    IF name = "generate" THEN generate_music(key, answer)
    ELSE IF name = "check" THEN check_status(key, answer)
    ELSE IF name = "lyrics" THEN get_lyrics(key, answer)
    ELSE generate_video(key, answer)

EndpointUrl(name) ==
    IF name = "generate" THEN GENERATE_URL
    ELSE IF name = "check" THEN STATUS_URL
    ELSE IF name = "lyrics" THEN LYRICS_URL
    ELSE VIDEO_URL

NoRequest == [pc |-> "idle", endpoint |-> None, url |-> None,
              answer |-> NoAnswer, response |-> NoResult]

Finished(d) == hpc[d] = "returned" /\ bg[d].pc \in {"none", "done", "raised"}

Init ==
    /\ apiKey \in BOOLEAN
    /\ payload = [d \in D |-> NoPayload]
    /\ hpc = [d \in D |-> "idle"]
    /\ resp = [d \in D |-> NoResp]
    /\ bg = [d \in D |-> NoTask]
    /\ post = [d \in D |-> NoPost]
    /\ log = [d \in D |-> {}]
    /\ file = [q \in Paths |-> Absent]
    /\ running = {}
    /\ prior = [d \in D |-> {}]
    /\ direct = [r \in R |-> NoRequest]

\* the provider sends delivery d; the request waits for the event loop
Deliver(d, p) ==
    /\ hpc[d] = "idle"
    /\ \A e \in D : e < d => hpc[e] # "idle"
    /\ payload' = [payload EXCEPT ![d] = p]
    /\ hpc' = [hpc EXCEPT ![d] = "arrived"]
    /\ prior' = [prior EXCEPT ![d] = {e \in D : Finished(e)}]
    /\ UNCHANGED <<apiKey, direct, resp, bg, post, log, file, running>>

\* the event loop runs webhook_callback for delivery d up to its return.
\* The only await of the handler is request.json() (line 280), before any
\* decision is taken; from there to the return the handler never yields, and
\* it reads nothing but the payload.
Handle(d) ==
    /\ hpc[d] = "arrived"
    /\ running = {}
    /\ LET r == webhook_callback(payload[d])
       IN  /\ resp' = [resp EXCEPT ![d] = [r EXCEPT !.co = NoCoroutine]]
           /\ bg' = [bg EXCEPT ![d] =
                       IF r.co.kind = "none" THEN NoTask ELSE create_task(r.co)]
    /\ hpc' = [hpc EXCEPT ![d] = "returned"]
    /\ UNCHANGED <<apiKey, direct, payload, post, log, file, running, prior>>

\* mutant: the video trigger is sent whether or not the download succeeded
process_audio_always_triggers(co, ret, key) ==
    [pc |-> "posting", lines |-> {},
     post |-> [url |-> VIDEO_URL, taskId |-> co.task_id,
               audioId |-> co.audio_id, callBackUrl |-> CALLBACK_URL,
               author |-> "MelodyMind AI", domainName |-> BASE_URL,
               result |-> "pending"]]

\* mutant: the trigger does not depend on the item carrying an audioId
process_audio_ignores_audio_id(co, ret, key) ==
    IF ret = "True" /\ key
    THEN [pc |-> "posting", lines |-> {"AUDIO SAVED"},
          post |-> [url |-> VIDEO_URL, taskId |-> co.task_id,
                    audioId |-> co.audio_id, callBackUrl |-> CALLBACK_URL,
                    author |-> "MelodyMind AI", domainName |-> BASE_URL,
                    result |-> "pending"]]
    ELSE [pc |-> "done", lines |-> {}, post |-> NoPost]

\* the body of process_audio after download_file returned ret (lines 340-362)
process_audio(co, ret, key) ==
    IF ret = "True"
    THEN IF co.audio_id # None
         THEN IF key
              THEN [pc |-> "posting", lines |-> {"AUDIO SAVED"},
                    post |-> [url |-> VIDEO_URL, taskId |-> co.task_id,
                              audioId |-> co.audio_id,
                              callBackUrl |-> CALLBACK_URL,
                              author |-> "MelodyMind AI",
                              domainName |-> BASE_URL, result |-> "pending"]]
              ELSE [pc |-> "done",
                    lines |-> {"AUDIO SAVED", "Video trigger error"},
                    post |-> NoPost]
         ELSE [pc |-> "done", lines |-> {"AUDIO SAVED"}, post |-> NoPost]
    ELSE IF ret = "False"
    THEN [pc |-> "done", lines |-> {"AUDIO DOWNLOAD FAILED"}, post |-> NoPost]
    ELSE [pc |-> "raised", lines |-> {}, post |-> NoPost]

\* mutant: a saved video starts the next generation through the callback URL
download_video_triggers(co, ret, key) ==
    IF ret = "True" /\ key
    THEN [pc |-> "posting", lines |-> {"VIDEO SAVED"},
          post |-> [url |-> VIDEO_URL, taskId |-> co.task_id,
                    audioId |-> co.audio_id, callBackUrl |-> CALLBACK_URL,
                    author |-> "MelodyMind AI", domainName |-> BASE_URL,
                    result |-> "pending"]]
    ELSE [pc |-> "done", lines |-> {"VIDEO DOWNLOAD FAILED"}, post |-> NoPost]

\* the body of download_video after download_file returned ret (lines 292-295)
download_video(co, ret, key) ==
    IF ret = "True"
    THEN [pc |-> "done", lines |-> {"VIDEO SAVED"}, post |-> NoPost]
    ELSE IF ret = "False"
    THEN [pc |-> "done", lines |-> {"VIDEO DOWNLOAD FAILED"}, post |-> NoPost]
    ELSE [pc |-> "raised", lines |-> {}, post |-> NoPost]

\* download_file returned (or raised) in the task of delivery d: the task
\* goes on, without yielding, to its next await or to its end
Returned(d, ret) ==
    LET co == bg[d].co
        n == IF co.kind = "process_audio"
             THEN process_audio(co, ret, apiKey)
             ELSE download_video(co, ret, apiKey)
    IN  /\ bg' = [bg EXCEPT ![d].pc = n.pc, ![d].ret = ret]
        /\ log' = [log EXCEPT ![d] = @ \cup n.lines]
        /\ post' = [post EXCEPT ![d] = n.post]
        /\ running' = {}

\* the event loop starts the background task: it calls download_file, whose
\* requests.get blocks the loop's thread
TaskStart(d) ==
    /\ bg[d].pc = "scheduled"
    /\ running = {}
    /\ bg' = [bg EXCEPT ![d].pc = "requesting"]
    /\ running' = {d}
    /\ UNCHANGED <<apiKey, direct, payload, hpc, resp, post, log, file, prior>>

\* requests.get answers: a 2xx status opens (truncates) the target file,
\* a non-2xx status or a transport fault makes download_file return
DownloadResponse(d, answer) ==
    /\ bg[d].pc = "requesting"
    /\ running = {d}
    /\ IF answer = "2xx"
       THEN /\ file' = [file EXCEPT ![bg[d].co.path] =
                          [src |-> bg[d].co.url, len |-> 0, exists |-> TRUE]]
            /\ bg' = [bg EXCEPT ![d].pc = "streaming"]
            /\ UNCHANGED <<post, log, running>>
       ELSE /\ Returned(d, download_file(answer))
            /\ UNCHANGED file
    /\ UNCHANGED <<apiKey, direct, payload, hpc, resp, prior>>

\* one chunk is written; after the last one download_file returns True
DownloadChunk(d) ==
    /\ bg[d].pc = "streaming"
    /\ running = {d}
    /\ LET q == bg[d].co.path
           n == file[q].len + 1
       IN  /\ file' = [file EXCEPT ![q].len = n]
           /\ IF n = MaxChunks
              THEN Returned(d, download_file("complete"))
              ELSE UNCHANGED <<bg, post, log, running>>
    /\ UNCHANGED <<apiKey, direct, payload, hpc, resp, prior>>

\* the stream breaks before the last chunk: download_file returns
DownloadFault(d) ==
    /\ bg[d].pc = "streaming"
    /\ running = {d}
    /\ Returned(d, download_file("fault"))
    /\ UNCHANGED <<apiKey, direct, payload, hpc, resp, file, prior>>

\* the provider answers the video-trigger request (or the transport fails)
\* and process_audio resumes after `await client.post` (lines 347-360)
PostComplete(d, answer) ==
    /\ bg[d].pc = "posting"
    /\ running = {}
    /\ post' = [post EXCEPT ![d].result = answer]
    /\ log' = [log EXCEPT ![d] = @ \cup
                 {IF answer = "fault" THEN "Video trigger error"
                                      ELSE "VIDEO GENERATION TRIGGERED"}]
    /\ bg' = [bg EXCEPT ![d].pc = "done"]
    /\ UNCHANGED <<apiKey, direct, payload, hpc, resp, file, running, prior>>

\* as Deliver, for a provider that sends a delivery only after the previous
\* ones were fully processed
DeliverSeq(d, p) ==
    /\ \A e \in D : e < d => Finished(e)
    /\ Deliver(d, p)

Next ==
    \/ \E d \in D, p \in CorePayloads : Deliver(d, p)
    \/ \E d \in D : Handle(d)
    \/ \E d \in D : TaskStart(d)
    \/ \E d \in D, answer \in {"2xx", "non2xx", "fault"} : DownloadResponse(d, answer)
    \/ \E d \in D : DownloadChunk(d)
    \/ \E d \in D : DownloadFault(d)
    \/ \E d \in D, answer \in {"2xx", "non2xx", "fault"} : PostComplete(d, answer)

Spec == Init /\ [][Next]_vars

\* deliveries in sequence, over every payload shape
NextSeq ==
    \/ \E d \in D, p \in Payloads : DeliverSeq(d, p)
    \/ \E d \in D : Handle(d)
    \/ \E d \in D : TaskStart(d)
    \/ \E d \in D, answer \in {"2xx", "non2xx", "fault"} : DownloadResponse(d, answer)
    \/ \E d \in D : DownloadChunk(d)
    \/ \E d \in D : DownloadFault(d)
    \/ \E d \in D, answer \in {"2xx", "non2xx", "fault"} : PostComplete(d, answer)

SpecSeq == Init /\ [][NextSeq]_vars

\* a client calls an endpoint: the handler runs to `await client.post/get`;
\* the arguments are evaluated first, so with no API key get_headers raises
\* and no request leaves the service
Request(r, name) ==
    /\ direct[r].pc = "idle"
    /\ \A q \in R : q < r => direct[q].pc # "idle"
    /\ running = {}
    /\ direct' = [direct EXCEPT ![r] =
                    IF apiKey
                    THEN [NoRequest EXCEPT !.pc = "awaiting", !.endpoint = name,
                                           !.url = EndpointUrl(name)]
                    ELSE [NoRequest EXCEPT !.pc = "done", !.endpoint = name,
                                           !.response = Endpoint(name, apiKey, NoAnswer)]]
    /\ UNCHANGED <<apiKey, payload, hpc, resp, bg, post, log, file, running, prior>>

\* the provider answers (or the transport fails) and the handler resumes
Respond(r, answer) ==
    /\ direct[r].pc = "awaiting"
    /\ running = {}
    /\ direct' = [direct EXCEPT ![r].pc = "done", ![r].answer = answer,
                    ![r].response = Endpoint(direct[r].endpoint, apiKey, answer)]
    /\ UNCHANGED <<apiKey, payload, hpc, resp, bg, post, log, file, running, prior>>

NextDirect ==
    \/ \E r \in R, name \in Endpoints : Request(r, name)
    \/ \E r \in R, answer \in ProviderAnswers : Respond(r, answer)

SpecDirect == Init /\ [][NextDirect]_vars

TypeOK ==
    /\ \A d \in D : hpc[d] \in {"idle", "arrived", "returned"}
    /\ Cardinality(running) <= 1

\* ----------------------------------------------------------------- claims
Downloaded(d) == bg[d].pc \notin {"none", "scheduled"}
Triggered(d) == post[d].url # None
Downloading(d) == bg[d].pc \in {"requesting", "streaming"}
VideoShaped(p) ==
    p.body = "dict" /\ p.code = "0" /\ p.shape = "dict" /\ p.item.video_url # None
TaskOf(p) == IF VideoShaped(p) THEN p.item.task_id ELSE Or(p.taskId, p.task_id)
Concurrent(d, e) ==
    /\ d # e
    /\ hpc[d] # "idle" /\ hpc[e] # "idle"
    /\ d \notin prior[e] /\ e \notin prior[d]

\* C1: when an AudioCompleted callback was fully processed with a successful
\* download and the same payload is delivered again afterwards, the second
\* delivery performs no download and sends no video-trigger request.
C1_SecondAudioDeliveryIsNoOp ==
    \A d1, d2 \in D :
        (/\ d1 \in prior[d2]
         /\ payload[d2] = payload[d1]
         /\ resp[d1].status = "audio_processed"
         /\ bg[d1].ret = "True")
        => (~Downloaded(d2) /\ ~Triggered(d2))

\* C2: of two AudioCompleted callbacks for the same task id that are handled
\* concurrently, at most one sends a video-trigger request.
C2_OneTriggerForConcurrentAudio ==
    \A d1, d2 \in D :
        (/\ Concurrent(d1, d2)
         /\ resp[d1].status = "audio_processed"
         /\ resp[d2].status = "audio_processed"
         /\ resp[d1].task_id = resp[d2].task_id)
        => ~(Triggered(d1) /\ Triggered(d2))

\* C3: when a VideoCompleted callback was fully processed with a successful
\* download and the same payload is delivered again, the second delivery
\* performs no download.
C3_SecondVideoDeliveryIsNoOp ==
    \A d1, d2 \in D :
        (/\ d1 \in prior[d2]
         /\ payload[d2] = payload[d1]
         /\ resp[d1].status = "video_processing"
         /\ bg[d1].ret = "True")
        => ~Downloaded(d2)

StatusBodies ==
    {"video_processing", "audio_processed", "processing", "ignored",
     "no_audio_url", "error"}

\* C4: every handled callback returns a response with a status body, whatever
\* the payload, and no exception escapes the handler or its background task,
\* whatever the outcome of the download and of the video trigger.
C4_AlwaysAcknowledges ==
    \A d \in D :
        /\ hpc[d] = "returned" => resp[d].status \in StatusBodies
        /\ bg[d].pc # "raised"
        /\ bg[d].ret \in {"none", "True", "False"}

\* a malformed payload was answered, a download failed, and a trigger was
\* abandoned for want of an API key or failed in transport
C4_Witness ==
    /\ \E d \in D : hpc[d] = "returned" /\ resp[d].status = "error"
                    /\ payload[d].body = "dict"
    /\ \E d \in D : bg[d].pc = "done" /\ bg[d].ret = "True"
                    /\ "Video trigger error" \in log[d]

ListWrapped(p) == [p EXCEPT !.shape = "list"]

\* C5: a payload whose data is the object D and the payload that differs only
\* in data being the list [D] get the same response status and dispatch the
\* same background work.
C5_ShapeTolerance ==
    \A d1, d2 \in D :
        (/\ hpc[d1] = "returned" /\ hpc[d2] = "returned"
         /\ payload[d1].body = "dict" /\ payload[d1].shape = "dict"
         /\ payload[d2] = ListWrapped(payload[d1]))
        => (/\ resp[d1].status = resp[d2].status
            /\ bg[d1].co = bg[d2].co)

NoDataPayload(p) ==
    \/ p.shape \in {"absent", "null", "emptylist"}
    \/ p.shape \in {"dict", "list"} /\ p.item = NoItem
NotSucceededPayload(p) ==
    /\ p.shape \in {"dict", "list"} /\ p.item # NoItem
    /\ Or(p.item.state, p.item.status) # "succeeded"
NoAudioUrlPayload(p) ==
    /\ p.shape \in {"dict", "list"}
    /\ Or(p.item.state, p.item.status) = "succeeded"
    /\ p.item.audioUrl = None /\ p.item.streamAudioUrl = None
NotCompletedEvent(p) ==
    /\ p.body = "dict" /\ ~VideoShaped(p)
    /\ NoDataPayload(p) \/ NotSucceededPayload(p) \/ NoAudioUrlPayload(p)

\* C6: a callback that is not a completed audio or video event is
\* acknowledged with its reason (ignored, processing, no_audio_url) and never
\* has a background task, a download or a provider call.
C6_IgnoredIsAcknowledgedWithReason ==
    \A d \in D :
        (hpc[d] = "returned" /\ NotCompletedEvent(payload[d]))
        => (/\ resp[d].status \in {"ignored", "processing", "no_audio_url"}
            /\ bg[d].pc = "none" /\ ~Downloaded(d) /\ ~Triggered(d))

\* C7: an AudioCompleted delivery whose download failed sends no video
\* trigger, and a later redelivery of the same payload gets a process_audio
\* task that calls download_file again.
C7_FailedDownloadDoesNotAdvance ==
    \A d \in D :
        (resp[d].status = "audio_processed" /\ bg[d].ret = "False")
        => (/\ ~Triggered(d)
            /\ \A e \in D :
                 (d \in prior[e] /\ payload[e] = payload[d] /\ hpc[e] = "returned")
                 => (/\ bg[e].co.kind = "process_audio"
                     /\ bg[e].pc # "none"
                     /\ (Finished(e) => bg[e].ret # "none")))

\* a redelivery after a failed download has downloaded again
C7_Witness ==
    \E d, e \in D :
        /\ resp[d].status = "audio_processed" /\ bg[d].ret = "False"
        /\ d \in prior[e] /\ payload[e] = payload[d]
        /\ bg[e].ret = "True"

\* C8: when download_file returns failure, the file at its target path is
\* absent or complete, never truncated or partial.
C8_NoPartialFileAfterFailure ==
    [][\A d \in D :
          (bg[d].ret = "none" /\ bg'[d].ret = "False")
          => (~file'[bg[d].co.path].exists \/ Complete(file'[bg[d].co.path]))]_vars

\* C9: the download of a completion callback ends only after the handler
\* returned the response of that callback, and the response, once returned,
\* is never changed by what the background task does.
C9_AckDoesNotWaitForSideEffects ==
    [][\A d \in D :
          /\ (bg[d].ret = "none" /\ bg'[d].ret # "none")
             => (/\ hpc[d] = "returned"
                 /\ resp[d].status \in {"audio_processed", "video_processing"})
          /\ hpc[d] = "returned" => resp'[d] = resp[d]]_vars

\* the response is out while the download of the same callback is streaming
C9_Witness ==
    \E d \in D :
        /\ hpc[d] = "returned" /\ resp[d].status = "audio_processed"
        /\ bg[d].pc = "streaming"

\* C10: while the download for one task is in progress, a callback for
\* another task that has arrived can be handled and acknowledged.
C10_NoContentionAcrossTasks ==
    \A a, b \in D :
        (/\ Downloading(a)
         /\ hpc[b] = "arrived"
         /\ TaskOf(payload[b]) # TaskOf(payload[a]))
        => ENABLED Handle(b)

\* C11 as stated: every payload with code 0 and a data object carrying a
\* video_url gets a download of that URL to media/{data.task_id}.mp4
\* dispatched, and never the audio pipeline.
C11_VideoAlwaysDispatched ==
    \A d \in D :
        (hpc[d] = "returned" /\ VideoShaped(payload[d]))
        => (/\ resp[d].status = "video_processing"
            /\ bg[d].co.kind = "download_video"
            /\ bg[d].co.url = payload[d].item.video_url
            /\ bg[d].co.path = <<payload[d].item.task_id, "mp4">>
            /\ ~Triggered(d))

\* C11 amended: a payload with code 0 and a data object carrying a video_url
\* and a task_id gets the download of that URL to media/{data.task_id}.mp4
\* and nothing else, whatever audio fields it carries; without data.task_id
\* it is answered with status error and nothing is dispatched.  In both
\* cases the audio pipeline is not started: no mp3 path, no video trigger.
C11_VideoPriority ==
    \A d \in D :
        (hpc[d] = "returned" /\ VideoShaped(payload[d]))
        => (/\ ~Triggered(d)
            /\ bg[d].co.kind # "process_audio"
            /\ bg[d].co.path[2] # "mp3"
            /\ IF payload[d].item.task_id # None
               THEN /\ resp[d].status = "video_processing"
                    /\ bg[d].co.kind = "download_video"
                    /\ bg[d].co.url = payload[d].item.video_url
                    /\ bg[d].co.path = <<payload[d].item.task_id, "mp4">>
               ELSE /\ resp[d].status = "error"
                    /\ bg[d].pc = "none")

\* a video payload that also carries every audio field was downloaded as a
\* video
C11_Witness ==
    \E d \in D :
        /\ VideoShaped(payload[d])
        /\ payload[d].taskId # None
        /\ payload[d].item.state = "succeeded"
        /\ payload[d].item.audioUrl # None
        /\ payload[d].item.audioId # None
        /\ bg[d].pc = "done" /\ bg[d].ret = "True"
        /\ Complete(file[<<payload[d].item.task_id, "mp4">>])

\* C12: a non-success status answered to a video-trigger request is reported
\* as a failure, by POST /video and by the callback pipeline alike, and the
\* trigger is not logged as issued.
C12_ProviderFailureIsReported ==
    /\ \A r \in R :
          (/\ direct[r].pc = "done" /\ direct[r].endpoint = "video"
           /\ direct[r].answer.kind = "response"
           /\ ~is_success(direct[r].answer.status))
          => direct[r].response.kind = "http_error"
    /\ \A d \in D :
          post[d].result = "non2xx"
          => (/\ "VIDEO GENERATION TRIGGERED" \notin log[d]
              /\ "Video trigger error" \in log[d])

\* C13: POST /generate and GET /check answer every upstream failure with an
\* HTTP error: a non-success provider status s with body b gives status s
\* and a detail that contains b, a transport fault or a missing API key
\* gives 500, and a success response is returned only for a provider
\* success.
C13_DirectEndpointsSurfaceFailures ==
    \A r \in R :
        (direct[r].pc = "done" /\ direct[r].endpoint \in {"generate", "check"})
        => LET a == direct[r].answer
               o == direct[r].response
           IN  /\ ~apiKey
                  => (o.kind = "http_error" /\ o.status_code = 500
                      /\ direct[r].url = None)
               /\ a.kind = "fault"
                  => (o.kind = "http_error" /\ o.status_code = 500)
               /\ (a.kind = "response" /\ ~is_success(a.status))
                  => (/\ o.kind = "http_error"
                      /\ o.status_code = a.status
                      /\ o.text = a.body
                      /\ o.prefix = IF direct[r].endpoint = "generate"
                                    THEN "Kie.ai API error: "
                                    ELSE "Status check failed: ")
               /\ o.kind = "ok"
                  => (apiKey /\ a.kind = "response" /\ is_success(a.status)
                      /\ o.text = a.body)

\* both endpoints have passed a provider error through
C13_Witness ==
    \E r, q \in R :
        /\ direct[r].endpoint = "generate" /\ direct[q].endpoint = "check"
        /\ direct[r].response.kind = "http_error"
        /\ direct[r].response.status_code = 404
        /\ direct[r].response.text = "b1"
        /\ direct[q].response.kind = "http_error"
        /\ direct[q].response.status_code = 500
        /\ direct[q].answer.kind = "fault"

\* C14: a VideoCompleted callback handled while this service has sent no
\* video trigger at all (so its video task id cannot be known to it) is
\* acknowledged without error and causes no download.
C14_OrphanVideoIsIgnored ==
    \A d \in D :
        (/\ hpc[d] = "returned"
         /\ VideoShaped(payload[d]) /\ payload[d].item.task_id # None
         /\ \A e \in D : ~Triggered(e))
        => (resp[d].status # "error" /\ ~Downloaded(d))

\* the requests the background task of delivery d has sent to the provider
PipelineRequests(d) == IF Triggered(d) THEN {post[d].url} ELSE {}

\* C15: an AudioCompleted delivery whose download succeeded and whose video
\* trigger was sent has fetched the timestamp-aligned lyrics before it.
C15_LyricsFetchedBeforeTrigger ==
    \A d \in D :
        (bg[d].ret = "True" /\ Triggered(d))
        => LYRICS_URL \in PipelineRequests(d)

\* the status of task t as far as the service persists it: the files under
\* media/ are the only state kept per task
TaskStatus(t) ==
    IF Complete(file[<<t, "mp4">>]) THEN "done"
    ELSE IF Complete(file[<<t, "mp3">>]) THEN "audio_done"
    ELSE "pending"
Rank(status) ==
    IF status = "done" THEN 2 ELSE IF status = "audio_done" THEN 1 ELSE 0

\* C16: the status of a task never moves backwards.
C16_StatusNeverRegresses ==
    [][\A t \in TaskIds : Rank(TaskStatus(t)') >= Rank(TaskStatus(t))]_vars

\* the video-trigger request that the claim expects of delivery d
ExpectedTrigger(d) ==
    /\ post[d].url = VIDEO_URL
    /\ post[d].taskId = resp[d].task_id
    /\ post[d].audioId = resp[d].audio_id
    /\ post[d].callBackUrl = CALLBACK_URL

\* C17 as stated (with the API key configured): every AudioCompleted
\* delivery whose download succeeded has, once its background task is over,
\* sent the video-trigger request with its task id, audio id and the
\* callback URL, also when its item carries no audioId; and no trigger is
\* sent before the download succeeded.
C17_EveryAudioTriggers ==
    \A d \in D :
        /\ (/\ apiKey
            /\ resp[d].status = "audio_processed"
            /\ bg[d].ret = "True" /\ bg[d].pc \in {"posting", "done"})
           => (Triggered(d) /\ ExpectedTrigger(d))
        /\ Triggered(d) => bg[d].ret = "True"

\* C17 amended: with the API key configured, every AudioCompleted delivery
\* whose item carries an audioId and whose download succeeded has sent the
\* video-trigger request with its task id, audio id and the callback URL
\* when download_file returns; a delivery without audioId, or handled
\* without API key, sends no trigger; no trigger is sent before the download
\* succeeded.
C17_AudioWithIdTriggers ==
    \A d \in D :
        /\ (/\ apiKey
            /\ resp[d].status = "audio_processed"
            /\ resp[d].audio_id # None
            /\ bg[d].ret = "True")
           => (Triggered(d) /\ ExpectedTrigger(d))
        /\ (resp[d].audio_id = None \/ ~apiKey) => ~Triggered(d)
        /\ Triggered(d) => (bg[d].ret = "True" /\ ExpectedTrigger(d))

\* a delivery with an audioId has triggered, one without has finished its
\* download without triggering
C17_Witness ==
    \E d, e \in D :
        /\ Triggered(d) /\ post[d].result = "2xx" /\ bg[d].pc = "done"
        /\ resp[e].status = "audio_processed" /\ resp[e].audio_id = None
        /\ bg[e].ret = "True" /\ bg[e].pc = "done" /\ ~Triggered(e)

\* C18: a delivery handled as VideoCompleted never sends a provider request,
\* and the video triggers sent are at most one per AudioCompleted delivery.
C18_VideoCallbackSendsNothing ==
    /\ \A d \in D :
          (VideoShaped(payload[d]) \/ bg[d].co.kind = "download_video")
          => (post[d] = NoPost /\ PipelineRequests(d) = {})
    /\ Cardinality({d \in D : Triggered(d)})
          <= Cardinality({d \in D : resp[d].status = "audio_processed"})

\* the chain has run to its end: one audio completion, its trigger, the
\* video completion and its download, with one trigger in all
C18_Witness ==
    \E d, e \in D :
        /\ resp[d].status = "audio_processed"
        /\ Triggered(d) /\ post[d].result = "2xx"
        /\ d \in prior[e]
        /\ resp[e].status = "video_processing"
        /\ bg[e].pc = "done" /\ bg[e].ret = "True"
        /\ Cardinality({x \in D : Triggered(x)}) = 1

\* C19: every download and every video trigger started by the callback
\* pipeline is for a task id that the payload carries.
C19_SideEffectsHaveTaskId ==
    \A d \in D :
        (Downloaded(d) \/ Triggered(d))
        => (/\ bg[d].co.task_id # None
            /\ bg[d].co.path[1] # None
            /\ Triggered(d) => post[d].taskId # None)

====
